---------------------------- MODULE Spec2Model ----------------------------
(***************************************************************************)
(* A model of the scheduling engine of the CPU scheduling simulator        *)
(* (src/src/scheduler.py): the six policies sjf_non_preemptive,            *)
(* srtf_preemptive, priority_non_preemptive, priority_preemptive, fcfs and *)
(* round_robin.  One run of one policy on one workload is one behaviour:   *)
(* Init is the state after the function's prologue, every action is one    *)
(* iteration of the function's loop, and pc = "done" is the state at its   *)
(* return statement.                                                       *)
(*                                                                         *)
(* Times are floats in the source.  The model takes every arrival, burst,  *)
(* quantum and overhead as a whole number of time units, on which float    *)
(* addition, subtraction and comparison are exact; the two tolerance tests *)
(* of the source, abs(x - y) < 1e-9 and remaining <= 1e-9, are then        *)
(* x = y and remaining <= 0.                                               *)
(***************************************************************************)
EXTENDS Integers, Sequences, FiniteSets, TLC

VARIABLES
    processes,      \* the caller's list of records (the argument `processes`)
    policy,         \* which of the six functions runs
    cso_time,       \* the argument cso_time
    quantum,        \* the argument quantum (round_robin only)
    procs,          \* the private copy: copy.deepcopy(processes), sorted in fcfs
    remaining,      \* procs[i]['remaining'], by index into procs (preemptive policies)
    time,           \* the virtual clock
    timeline,       \* the list of (subject, start, end)
    metrics,        \* pid -> {CT, TAT, WT}
    completed,      \* the set completed / completed_pids
    last_pid,       \* last_process_id / last_run_pid
    queue,          \* round_robin's ready queue, as indices into procs
    arrival_index,  \* round_robin's arrival_index
    loop_i,         \* fcfs: the position of the for loop in procs
    pc,             \* "run" inside the loop, "done" at the return statement
    animation_running,  \* front-end: self.animation_running
    current_step,   \* front-end: self.current_step
    self_current_pid,  \* front-end: self.current_pid
    callbacks,      \* front-end: the pending master.after callbacks, in firing order
    metrics_tree    \* front-end: the rows of the metrics table

(* The state of the front-end around the engine.                           *)
gui == << animation_running, current_step, self_current_pid, callbacks,
          metrics_tree >>

vars == << processes, policy, cso_time, quantum, procs, remaining, time,
           timeline, metrics, completed, last_pid, queue, arrival_index,
           loop_i, pc, gui >>

-----------------------------------------------------------------------------
(* Bounds of the model.                                                    *)

MaxProcs == 2
MaxArrival == 2
MaxBurst == 2
MaxPriority == 1
MaxCso == 1
MaxQuantum == 2

(* Bounds of the single-policy specifications, whose claims are about      *)
(* three processes, four units of burst or three priority levels.          *)
WideProcs == 3
WideBurst == 4
WidePriority == 2

(* The longest timeline a run with a non-positive quantum, which need not  *)
(* terminate, is followed to.                                              *)
MaxSegments == 6

(* The distinguished subject 'Idle' and the value None of last_process_id. *)
(* Pids are the numbers 1, 2, ...; the source compares pids for equality   *)
(* only, so any two values different from every pid serve.                 *)
Idle == 0
None == -1

(* The priority the front-end gives a record when the policy reads none.   *)
DefaultPriority == 1

(* The default of round_robin's parameter quantum.                         *)
DefaultQuantum == 2

Policies == {"fcfs", "sjf", "srtf", "priority_np", "priority_p", "rr"}
PriorityPolicies == {"priority_np", "priority_p"}
Preemptive == {"srtf", "priority_p", "rr"}

-----------------------------------------------------------------------------
(* Helpers.                                                                *)

SetMin(S) == CHOOSE x \in S : \A y \in S : x <= y

SetMax(S) == CHOOSE x \in S : \A y \in S : x >= y

Min2(a, b) == IF a <= b THEN a ELSE b

Max2(a, b) == IF a >= b THEN a ELSE b

N == Len(procs)

Pids == {processes[i].pid : i \in 1..Len(processes)}

(* timeline[-1][0] == 'Idle', guarded by `timeline and`.                   *)
LastIsIdle(tl) == Len(tl) > 0 /\ tl[Len(tl)][1] = Idle

(* The idle branch's update of the timeline: extend a trailing Idle        *)
(* segment, or append a new one.                                           *)
AppendIdle(tl, t, next_arrival) ==
    IF LastIsIdle(tl)
    THEN [tl EXCEPT ![Len(tl)] = << Idle, tl[Len(tl)][2], next_arrival >>]
    ELSE Append(tl, << Idle, t, next_arrival >>)

(* A mutant of MergeSlice: every slice is appended as a segment of its own. *)
MergeSliceNever(tl, pid, start_time, end_time) ==
    Append(tl, << pid, start_time, end_time >>)

(* A mutant of MergeSlice: a new segment starts where the segment before   *)
(* it ended, so the overhead of the switch lies inside it.                 *)
MergeSliceWithOverhead(tl, pid, start_time, end_time) ==
    IF Len(tl) > 0 /\ tl[Len(tl)][1] = pid /\ tl[Len(tl)][3] = start_time
    THEN [tl EXCEPT ![Len(tl)] = << pid, tl[Len(tl)][2], end_time >>]
    ELSE Append(tl, << pid, IF Len(tl) > 0 THEN tl[Len(tl)][3] ELSE start_time,
                       end_time >>)

(* The preemptive policies' update of the timeline: a slice that continues *)
(* the last segment's process from where that segment ended is merged      *)
(* into it.                                                                *)
MergeSlice(tl, pid, start_time, end_time) ==
    IF Len(tl) > 0 /\ tl[Len(tl)][1] = pid /\ tl[Len(tl)][3] = start_time
    THEN [tl EXCEPT ![Len(tl)] = << pid, tl[Len(tl)][2], end_time >>]
    ELSE Append(tl, << pid, start_time, end_time >>)

(* A mutant of Metric: the turnaround time is taken from time 0.           *)
MetricFromZero(ct, arrival, burst) ==
    [CT |-> ct, TAT |-> ct, WT |-> ct - burst]

(* A mutant of Metric: the completion time includes the overhead of the    *)
(* switch that follows the process.                                        *)
MetricWithOverhead(ct, arrival, burst) ==
    [CT |-> ct + cso_time,
     TAT |-> (ct + cso_time) - arrival,
     WT |-> ((ct + cso_time) - arrival) - burst]

(* ct, tat = ct - arrival, wt = tat - burst.                               *)
Metric(ct, arrival, burst) ==
    [CT |-> ct, TAT |-> ct - arrival, WT |-> (ct - arrival) - burst]

(* metrics[pid] = m                                                        *)
SetMetric(ms, pid, m) ==
    [p \in (DOMAIN ms) \cup {pid} |-> IF p = pid THEN m ELSE ms[p]]

(* next(p for p in processes if p['pid'] == current_pid)                   *)
ProcData(pid) ==
    processes[SetMin({i \in 1..Len(processes) : processes[i].pid = pid})]

(* min(S, key=...), with key the function from positions to keys: Python's *)
(* min returns the first element, in list order, among those with the      *)
(* least key.                                                              *)
FirstMin(S, key) ==
    SetMin({i \in S : \A j \in S : key[i] <= key[j]})

(* A mutant of Available: the arrival test is dropped.                     *)
AvailableAnyArrival(t) ==
    {i \in 1..N : procs[i].pid \notin completed}

(* A mutant of Available: the completed records stay available.            *)
AvailableWithCompleted(t) ==
    {i \in 1..N : procs[i].arrival <= t}

(* [p for p in procs if p['arrival'] <= time and p['pid'] not in completed] *)
Available(t) ==
    {i \in 1..N : procs[i].arrival <= t /\ procs[i].pid \notin completed}

(* sjf / priority_np: [p['arrival'] for p in procs if p['pid'] not in completed] *)
FutureOfIncomplete ==
    {procs[i].arrival : i \in {j \in 1..N : procs[j].pid \notin completed}}

(* A mutant of IdleFuture: neither filter is applied.                      *)
IdleFutureUnfiltered(t) ==
    {procs[i].arrival : i \in 1..N}

(* srtf / priority_p / rr, idle branch:                                    *)
(* [p['arrival'] for p in procs if p['pid'] not in completed_pids and p['arrival'] > time] *)
IdleFuture(t) ==
    {procs[i].arrival :
        i \in {j \in 1..N : procs[j].pid \notin completed /\ procs[j].arrival > t}}

(* remaining <= 1e-9                                                       *)
IsComplete(rem) == rem <= 0

(* procs.sort(key=lambda p: p['arrival']): a stable sort.  The i-th        *)
(* element of the result is the record with exactly i - 1 records before   *)
(* it in the order (arrival, position).                                    *)
(* A mutant of Before: the sort is by descending arrival.                  *)
BeforeDescending(s, j, k) ==
    s[j].arrival > s[k].arrival \/ (s[j].arrival = s[k].arrival /\ j < k)

Before(s, j, k) ==
    s[j].arrival < s[k].arrival \/ (s[j].arrival = s[k].arrival /\ j < k)

SortByArrival(s) ==
    [i \in 1..Len(s) |->
        s[CHOOSE k \in 1..Len(s) :
            Cardinality({j \in 1..Len(s) : Before(s, j, k)}) = i - 1]]


-----------------------------------------------------------------------------
(* The state after the prologue of the chosen function.                    *)

(* The workloads of at most max_n records, the i-th with pid i.            *)
Records(max_n, arrivals, bursts, priorities) ==
    UNION {
        { [i \in 1..n |-> [pid |-> i, arrival |-> a[i], burst |-> b[i],
                           priority |-> pr[i]]] :
            a \in [1..n -> arrivals], b \in [1..n -> bursts],
            pr \in [1..n -> priorities] } :
        n \in 0..max_n }

(* CPUSchedulerApp.__init__: no process, no timeline, no animation, an     *)
(* empty metrics table and no callback pending.                            *)
GuiConstructed ==
    /\ animation_running = FALSE
    /\ current_step = 0
    /\ self_current_pid = 1
    /\ callbacks = << >>
    /\ metrics_tree = << >>

(* A mutant of Start: the timeline starts with an Idle segment of no       *)
(* length instead of empty.                                                *)
StartWithIdleSegment(w, pol, cso, q) ==
    /\ GuiConstructed
    /\ processes = w
    /\ policy = pol
    /\ cso_time = cso
    /\ quantum = q
    /\ procs = IF pol = "fcfs" THEN SortByArrival(w) ELSE w
    /\ remaining = IF pol \in Preemptive
                   THEN [i \in 1..Len(w) |-> w[i].burst]
                   ELSE << >>
    /\ time = 0
    /\ timeline = << << Idle, 0, 0 >> >>
    /\ metrics = << >>
    /\ completed = {}
    /\ last_pid = None
    /\ queue = << >>
    /\ arrival_index = 0
    /\ loop_i = 0
    /\ pc = "run"

(* The run of `pol` on the workload `w` starts here.                       *)
Start(w, pol, cso, q) ==
    /\ GuiConstructed
    /\ processes = w
    /\ policy = pol
    /\ cso_time = cso
    /\ quantum = q
    /\ procs = IF pol = "fcfs" THEN SortByArrival(w) ELSE w
    /\ remaining = IF pol \in Preemptive
                   THEN [i \in 1..Len(w) |-> w[i].burst]
                   ELSE << >>
    /\ time = 0
    /\ timeline = << >>
    /\ metrics = << >>
    /\ completed = {}
    /\ last_pid = None
    /\ queue = << >>
    /\ arrival_index = 0
    /\ loop_i = 0
    /\ pc = "run"

(* Valid engine inputs: burst > 0, arrival >= 0, priority >= 0, unique     *)
(* pids, cso >= 0 and, for round_robin, quantum > 0.  The four policies    *)
(* that never read the priority get the front-end's default for it; the    *)
(* other five functions have no quantum parameter (0 here).  The overhead  *)
(* is absent (0) or present (MaxCso).                                      *)
Init ==
    \E pol \in Policies :
    \E w \in Records(MaxProcs, 0..MaxArrival, 1..MaxBurst,
                     IF pol \in PriorityPolicies THEN 0..MaxPriority
                     ELSE {DefaultPriority}) :
    \E cso \in {0, MaxCso} :
    \E q \in (IF pol = "rr" THEN 1..MaxQuantum ELSE {0}) :
        Start(w, pol, cso, q)

(* srtf_preemptive without overhead, on up to WideProcs processes with     *)
(* bursts up to WideBurst.                                                 *)
InitSrtf ==
    \E w \in Records(WideProcs, 0..MaxArrival, 1..WideBurst, {DefaultPriority}) :
        Start(w, "srtf", 0, 0)

(* priority_preemptive without overhead, on up to WideProcs processes with *)
(* priorities up to WidePriority.                                          *)
InitPp ==
    \E w \in Records(WideProcs, 0..MaxArrival, 1..MaxBurst, 0..WidePriority) :
        Start(w, "priority_p", 0, 0)

(* srtf_preemptive with and without overhead, with bursts up to WideBurst. *)
InitWt ==
    \E w \in Records(MaxProcs, 0..MaxArrival, 1..WideBurst, {DefaultPriority}) :
    \E cso \in {0, MaxCso} :
        Start(w, "srtf", cso, 0)

(* round_robin on every quantum a caller can pass, 0 for the non-positive  *)
(* ones: the prologue of round_robin reads no quantum, and run_simulation  *)
(* (main_gui.py, lines 304-308) calls round_robin with the value of the    *)
(* entry field and tests quantum <= 0 only after the call has returned.    *)
InitQuantum ==
    \E w \in Records(MaxProcs, 0..MaxArrival, 1..MaxBurst, {DefaultPriority}) :
    \E cso \in {0, MaxCso} :
    \E q \in 0..MaxQuantum :
        Start(w, "rr", cso, q)

(* The lists of at most max_n records a caller can pass when nothing is    *)
(* validated: any pid, repeated or not, on any record.                     *)
UncheckedRecords(max_n, pids, arrivals, bursts, priorities) ==
    UNION {
        { [i \in 1..n |-> [pid |-> p[i], arrival |-> a[i], burst |-> b[i],
                           priority |-> pr[i]]] :
            p \in [1..n -> pids], a \in [1..n -> arrivals],
            b \in [1..n -> bursts], pr \in [1..n -> priorities] } :
        n \in 0..max_n }

(* sjf_non_preemptive, srtf_preemptive and priority_non_preemptive on      *)
(* every list of records, valid or not: arrivals from -1, bursts from 0,   *)
(* priorities from -1, pids that may repeat.  None of the six functions    *)
(* tests its records before its loop.                                      *)
InitUnchecked ==
    \E pol \in {"sjf", "srtf", "priority_np"} :
    \E w \in UncheckedRecords(MaxProcs, 1..MaxProcs, (0 - 1)..MaxArrival,
                              0..MaxBurst,
                              IF pol \in PriorityPolicies
                              THEN (0 - 1)..MaxPriority
                              ELSE {DefaultPriority}) :
    \E cso \in {0, MaxCso} :
        Start(w, pol, cso, 0)

(* The workload of the two worked scenarios: P1(arrival 0, burst 5),       *)
(* P2(arrival 1, burst 3), P3(arrival 2, burst 1).                         *)
ScenarioWorkload ==
    << [pid |-> 1, arrival |-> 0, burst |-> 5, priority |-> DefaultPriority],
       [pid |-> 2, arrival |-> 1, burst |-> 3, priority |-> DefaultPriority],
       [pid |-> 3, arrival |-> 2, burst |-> 1, priority |-> DefaultPriority] >>

(* The workloads with as many records as the scenario's and bursts taken   *)
(* from it, the scenario's among them.                                     *)
ScenarioLike ==
    LET n == Len(ScenarioWorkload)
        bursts == {ScenarioWorkload[i].burst : i \in 1..n}
    IN { [i \in 1..n |-> [pid |-> i, arrival |-> a[i], burst |-> b[i],
                          priority |-> DefaultPriority]] :
            a \in [1..n -> 0..MaxArrival], b \in [1..n -> bursts] }

(* fcfs and round_robin on the scenario-like workloads.                    *)
InitScenario ==
    \E pol \in {"fcfs", "rr"} :
    \E w \in ScenarioLike :
    \E cso \in {0, MaxCso} :
    \E q \in (IF pol = "rr" THEN 1..MaxQuantum ELSE {0}) :
        Start(w, pol, cso, q)

(* round_robin on up to WideProcs processes.                               *)
InitRr ==
    \E w \in Records(WideProcs, 0..MaxArrival, 1..MaxBurst, {DefaultPriority}) :
    \E cso \in {0, MaxCso} :
    \E q \in 1..MaxQuantum :
        Start(w, "rr", cso, q)

-----------------------------------------------------------------------------
(* sjf_non_preemptive and priority_non_preemptive: the same loop, with a   *)
(* different selection key.                                                *)

(* A mutant of Remaining: the key is negated, so the longest remaining     *)
(* time is the least key.                                                  *)
RemainingNegated == [i \in 1..N |-> 0 - remaining[i]]

(* The selection keys: lambda p: p['burst'], p['priority'], p['remaining']. *)
Burst == [i \in 1..N |-> procs[i].burst]

Priority == [i \in 1..N |-> procs[i].priority]

Remaining == remaining

(* A mutant of NpSwitch: the first dispatch is charged at time 0 too.      *)
NpSwitchNoTimeTest(t, pid) ==
    IF last_pid # None /\ last_pid # pid THEN t + cso_time
    ELSE IF last_pid = None THEN t + cso_time
    ELSE t

(* The clock after the context-switch test of the non-preemptive loops.    *)
NpSwitch(t, pid) ==
    IF last_pid # None /\ last_pid # pid THEN t + cso_time
    ELSE IF last_pid = None /\ t > 0 THEN t + cso_time
    ELSE t

NpIdle(pol) ==
    /\ pc = "run" /\ policy = pol
    /\ Cardinality(completed) < N
    /\ Available(time) = {}
    /\ FutureOfIncomplete # {}
    /\ LET next_arrival == SetMin(FutureOfIncomplete) IN
        /\ timeline' = AppendIdle(timeline, time, next_arrival)
        /\ time' = next_arrival
    /\ UNCHANGED << gui, processes, policy, cso_time, quantum, procs, remaining,
                    metrics, completed, last_pid, queue, arrival_index,
                    loop_i, pc >>

NpDispatch(pol, curr) ==
    /\ pc = "run" /\ policy = pol
    /\ Cardinality(completed) < N
    /\ Available(time) # {}
    /\ LET start == NpSwitch(time, procs[curr].pid)
           end   == start + procs[curr].burst
       IN
        /\ timeline' = Append(timeline, << procs[curr].pid, start, end >>)
        /\ metrics' = SetMetric(metrics, procs[curr].pid,
                                Metric(end, procs[curr].arrival, procs[curr].burst))
        /\ completed' = completed \cup {procs[curr].pid}
        /\ time' = end
        /\ last_pid' = procs[curr].pid
    /\ UNCHANGED << gui, processes, policy, cso_time, quantum, procs, remaining,
                    queue, arrival_index, loop_i, pc >>

(* A mutant of SjfDispatch: the first available record runs, whatever its  *)
(* burst.                                                                  *)
SjfDispatchInListOrder == NpDispatch("sjf", SetMin(Available(time)))

(* A mutant of PnpDispatch: the first available record runs, whatever its  *)
(* priority.                                                               *)
PnpDispatchInListOrder == NpDispatch("priority_np", SetMin(Available(time)))

(* A mutant of SjfDispatch: among the available records of least burst any *)
(* one may run.                                                            *)
SjfDispatchAnyShortest ==
    \E c \in {i \in Available(time) :
                \A j \in Available(time) : procs[i].burst <= procs[j].burst} :
        NpDispatch("sjf", c)

SjfIdle == NpIdle("sjf")

SjfDispatch == NpDispatch("sjf", FirstMin(Available(time), Burst))

PnpIdle == NpIdle("priority_np")

PnpDispatch == NpDispatch("priority_np", FirstMin(Available(time), Priority))

(* sjf_non_preemptive as a function of its list of records s: the loop     *)
(* from the state st = (timeline, metrics, completed, time,                *)
(* last_process_id) to the return statement.                               *)
RECURSIVE SjfLoop(_, _)
SjfLoop(s, st) ==
    LET n == Len(s)
        available == {i \in 1..n : s[i].arrival <= st.time
                                   /\ s[i].pid \notin st.completed}
        future == {s[i].arrival : i \in {j \in 1..n : s[j].pid \notin st.completed}}
    IN
    IF Cardinality(st.completed) >= n THEN st
    ELSE IF available = {}
    THEN IF future = {} THEN st
         ELSE SjfLoop(s, [st EXCEPT
                            !.timeline = AppendIdle(@, st.time, SetMin(future)),
                            !.time = SetMin(future)])
    ELSE LET curr == FirstMin(available, [i \in 1..n |-> s[i].burst])
             pid == s[curr].pid
             start == IF st.last # None /\ st.last # pid THEN st.time + cso_time
                      ELSE IF st.last = None /\ st.time > 0 THEN st.time + cso_time
                      ELSE st.time
             end == start + s[curr].burst
         IN SjfLoop(s, [timeline |-> Append(st.timeline, << pid, start, end >>),
                        metrics |-> SetMetric(st.metrics, pid,
                                        Metric(end, s[curr].arrival, s[curr].burst)),
                        completed |-> st.completed \cup {pid},
                        time |-> end,
                        last |-> pid])

(* sjf_non_preemptive(w, cso_time): the timeline and the metrics it        *)
(* returns.                                                                *)
Sjf(w) ==
    SjfLoop(w, [timeline |-> << >>, metrics |-> << >>, completed |-> {},
                time |-> 0, last |-> None])

-----------------------------------------------------------------------------
(* srtf_preemptive and priority_preemptive.                                *)

(* The clock after the context-switch test of the preemptive loops.        *)
(* A mutant of PSwitch: the overhead is added only after an Idle segment.   *)
PSwitchAfterIdleOnly(t, pid) ==
    IF last_pid = Idle THEN t + cso_time ELSE t

PSwitch(t, pid) ==
    IF last_pid # None /\ last_pid # pid THEN t + cso_time ELSE t

(* A mutant of FutureArrivals: the records arriving exactly at t count as  *)
(* future arrivals.                                                        *)
FutureArrivalsInclusive(t) ==
    {procs[i].arrival :
        i \in {j \in 1..N : procs[j].arrival >= t /\ procs[j].pid \notin completed}}

(* srtf, run branch:                                                       *)
(* [p['arrival'] for p in procs if p['arrival'] > time and p['pid'] not in completed_pids] *)
FutureArrivals(t) ==
    {procs[i].arrival :
        i \in {j \in 1..N : procs[j].arrival > t /\ procs[j].pid \notin completed}}

(* srtf: run_for, at clock t (after the context switch).                   *)
SrtfRunFor(curr, t) ==
    LET time_to_complete == remaining[curr]
        next_arrival == SetMin(FutureArrivals(t))
        next_preemption_time ==
            IF /\ FutureArrivals(t) # {}
               /\ \E i \in 1..N : /\ procs[i].arrival = next_arrival
                                  /\ procs[i].burst < remaining[curr]
            THEN next_arrival - t
            ELSE time_to_complete
    IN Min2(time_to_complete, next_preemption_time)

(* priority_p: the scan of future_arrivals, in list order, from record k   *)
(* on; prio and arr are preempting_priority and preempting_arrival.        *)
RECURSIVE PpScan(_, _, _, _)
PpScan(k, t, prio, arr) ==
    IF k > N THEN arr
    ELSE IF /\ procs[k].arrival > t
            /\ procs[k].pid \notin completed
            /\ procs[k].priority < prio
         THEN PpScan(k + 1, t, procs[k].priority, procs[k].arrival)
         ELSE PpScan(k + 1, t, prio, arr)

(* priority_p: run_for, at clock t (after the context switch).             *)
PpRunFor(curr, t) ==
    LET time_to_complete == remaining[curr]
        preempting_arrival == PpScan(1, t, procs[curr].priority, None)
        next_preemption_time ==
            IF preempting_arrival # None THEN preempting_arrival - t
            ELSE time_to_complete
    IN Min2(time_to_complete, next_preemption_time)

PIdle(pol) ==
    /\ pc = "run" /\ policy = pol
    /\ Cardinality(completed) < N
    /\ Available(time) = {}
    /\ IdleFuture(time) # {}
    /\ LET next_arrival == SetMin(IdleFuture(time)) IN
        /\ timeline' = AppendIdle(timeline, time, next_arrival)
        /\ time' = next_arrival
    /\ last_pid' = Idle
    /\ UNCHANGED << gui, processes, policy, cso_time, quantum, procs, remaining,
                    metrics, completed, queue, arrival_index, loop_i, pc >>

(* Steps 6 and 7 of the preemptive loops: run the slice, update the        *)
(* timeline and record the metrics on completion.                          *)
Slice(curr, start_time, run_for) ==
    LET current_pid == procs[curr].pid
        end_time == start_time + run_for
        proc_data == ProcData(current_pid)
    IN
    /\ remaining' = [remaining EXCEPT ![curr] = @ - run_for]
    /\ time' = end_time
    /\ timeline' = MergeSlice(timeline, current_pid, start_time, end_time)
    /\ last_pid' = current_pid
    /\ IF IsComplete(remaining'[curr])
       THEN /\ completed' = completed \cup {current_pid}
            /\ metrics' = SetMetric(metrics, current_pid,
                            Metric(end_time, proc_data.arrival, proc_data.burst))
       ELSE UNCHANGED << completed, metrics >>

SrtfIdle == PIdle("srtf")

SrtfRun ==
    /\ pc = "run" /\ policy = "srtf"
    /\ Cardinality(completed) < N
    /\ Available(time) # {}
    /\ LET curr == FirstMin(Available(time), Remaining)
           t == PSwitch(time, procs[curr].pid)
       IN Slice(curr, t, SrtfRunFor(curr, t))
    /\ UNCHANGED << gui, processes, policy, cso_time, quantum, procs, queue,
                    arrival_index, loop_i, pc >>

PpIdle == PIdle("priority_p")

PpRun ==
    /\ pc = "run" /\ policy = "priority_p"
    /\ Cardinality(completed) < N
    /\ Available(time) # {}
    /\ LET curr == FirstMin(Available(time), Priority)
           t == PSwitch(time, procs[curr].pid)
       IN Slice(curr, t, PpRunFor(curr, t))
    /\ UNCHANGED << gui, processes, policy, cso_time, quantum, procs, queue,
                    arrival_index, loop_i, pc >>

-----------------------------------------------------------------------------
(* fcfs: one iteration of `for p in procs`.                                *)

(* A mutant of FcfsSwitch: the test time > 0 is dropped.                   *)
FcfsSwitchNoTimeTest(tl, t, arrival) ==
    IF Len(tl) > 0 /\ ~LastIsIdle(tl) THEN t
    ELSE IF Len(tl) = 0 \/ LastIsIdle(tl)
         THEN Max2(arrival, t + cso_time)
         ELSE t

(* A mutant of FcfsSwitch: the overhead is added before every process but  *)
(* the first.                                                              *)
FcfsSwitchAlways(tl, t, arrival) ==
    IF Len(tl) > 0 THEN t + cso_time ELSE t

(* The clock after fcfs's context-switch test: the overhead is added only  *)
(* when the timeline ends with an Idle segment.                            *)
FcfsSwitch(tl, t, arrival) ==
    IF Len(tl) > 0 /\ ~LastIsIdle(tl) THEN t
    ELSE IF t > 0 /\ (Len(tl) = 0 \/ LastIsIdle(tl))
         THEN Max2(arrival, t + cso_time)
         ELSE t

(* A mutant of FcfsBody: the loop does not wait for the arrival of p.       *)
FcfsBodyNoWait(st, p) ==
    LET start == FcfsSwitch(st.timeline, st.time, p.arrival)
        end == start + p.burst
    IN [timeline |-> Append(st.timeline, << p.pid, start, end >>),
        metrics |-> SetMetric(st.metrics, p.pid, Metric(end, p.arrival, p.burst)),
        time |-> end]

(* The body of `for p in procs`, from the clock, timeline and metrics in st. *)
FcfsBody(st, p) ==
    LET idle == p.arrival > st.time
        tl1 == IF idle THEN AppendIdle(st.timeline, st.time, p.arrival)
               ELSE st.timeline
        t1 == IF idle THEN p.arrival ELSE st.time
        start == FcfsSwitch(tl1, t1, p.arrival)
        end == start + p.burst
    IN [timeline |-> Append(tl1, << p.pid, start, end >>),
        metrics |-> SetMetric(st.metrics, p.pid, Metric(end, p.arrival, p.burst)),
        time |-> end]

FcfsStep ==
    /\ pc = "run" /\ policy = "fcfs"
    /\ loop_i < N
    /\ LET r == FcfsBody([timeline |-> timeline, metrics |-> metrics,
                          time |-> time], procs[loop_i + 1])
       IN
        /\ timeline' = r.timeline
        /\ metrics' = r.metrics
        /\ time' = r.time
    /\ loop_i' = loop_i + 1
    /\ UNCHANGED << gui, processes, policy, cso_time, quantum, procs, remaining,
                    completed, last_pid, queue, arrival_index, pc >>

(* The whole loop over the sorted list s, from its i-th record on.         *)
RECURSIVE FcfsLoop(_, _, _)
FcfsLoop(st, s, i) ==
    IF i > Len(s) THEN st ELSE FcfsLoop(FcfsBody(st, s[i]), s, i + 1)

(* fcfs(w, cso_time): the timeline and the metrics it returns.             *)
Fcfs(w) ==
    FcfsLoop([timeline |-> << >>, metrics |-> << >>, time |-> 0],
             SortByArrival(w), 1)

-----------------------------------------------------------------------------
(* round_robin.                                                            *)

QueuePids(q) == {procs[q[k]].pid : k \in 1..Len(q)}

(* A mutant of Admit: the admission loop does not test the arrival.        *)
RECURSIVE AdmitWithoutArrivalTest(_, _, _)
AdmitWithoutArrivalTest(q, idx, t) ==
    IF idx < N
    THEN AdmitWithoutArrivalTest(IF procs[idx + 1].pid \notin QueuePids(q)
                                 THEN Append(q, idx + 1) ELSE q,
                                 idx + 1, t)
    ELSE [queue |-> q, arrival_index |-> idx]

(* Step 1: the admission loop at the top of an iteration, from             *)
(* arrival_index = idx with ready queue q at clock t.                      *)
RECURSIVE Admit(_, _, _)
Admit(q, idx, t) ==
    IF idx < N /\ procs[idx + 1].arrival <= t
    THEN Admit(IF procs[idx + 1].pid \notin QueuePids(q)
               THEN Append(q, idx + 1) ELSE q,
               idx + 1, t)
    ELSE [queue |-> q, arrival_index |-> idx]

(* A mutant of NewArrivals: nothing is admitted after the slice, so the    *)
(* arrivals during it are queued behind the preempted process.             *)
NewArrivalsNone(new_arrivals, idx, t) ==
    [new_arrivals |-> new_arrivals, arrival_index |-> idx]

(* Step 8: the admission loop after a slice that did not complete; the     *)
(* new arrivals are appended without the membership test.                  *)
RECURSIVE NewArrivals(_, _, _)
NewArrivals(new_arrivals, idx, t) ==
    IF idx < N /\ procs[idx + 1].arrival <= t
    THEN NewArrivals(Append(new_arrivals, idx + 1), idx + 1, t)
    ELSE [new_arrivals |-> new_arrivals, arrival_index |-> idx]

(* A mutant of RrRunFor: every slice lasts a whole quantum.                 *)
RrRunForWholeQuantum(curr) == quantum

(* run_for = min(quantum, curr_proc['remaining'])                          *)
RrRunFor(curr) == Min2(quantum, remaining[curr])

RrIdle ==
    /\ pc = "run" /\ policy = "rr"
    /\ Cardinality(completed) < N
    /\ LET a == Admit(queue, arrival_index, time) IN
        /\ a.queue = << >>
        /\ IdleFuture(time) # {}
        /\ queue' = a.queue
        /\ arrival_index' = a.arrival_index
    /\ LET next_arrival == SetMin(IdleFuture(time)) IN
        /\ timeline' = AppendIdle(timeline, time, next_arrival)
        /\ time' = next_arrival
    /\ last_pid' = Idle
    /\ UNCHANGED << gui, processes, policy, cso_time, quantum, procs, remaining,
                    metrics, completed, loop_i, pc >>

RrRun ==
    /\ pc = "run" /\ policy = "rr"
    /\ Cardinality(completed) < N
    /\ LET a == Admit(queue, arrival_index, time) IN
        /\ a.queue # << >>
        /\ LET curr == Head(a.queue)
               t == PSwitch(time, procs[curr].pid)
               run_for == RrRunFor(curr)
               na == NewArrivals(<< >>, a.arrival_index, t + run_for)
           IN
            /\ Slice(curr, t, run_for)
            /\ IF IsComplete(remaining'[curr])
               THEN /\ queue' = Tail(a.queue)
                    /\ arrival_index' = a.arrival_index
               ELSE /\ queue' = Append(Tail(a.queue) \o na.new_arrivals, curr)
                    /\ arrival_index' = na.arrival_index
    /\ UNCHANGED << gui, processes, policy, cso_time, quantum, procs, loop_i, pc >>

-----------------------------------------------------------------------------
(* The other functions as functions of their list of records s, like       *)
(* Fcfs and Sjf: each loop from the state st of its locals to the return   *)
(* statement.                                                              *)

(* priority_non_preemptive: the while loop.                                *)
RECURSIVE PnpLoop(_, _)
PnpLoop(s, st) ==
    LET n == Len(s)
        available == {i \in 1..n : s[i].arrival <= st.time
                                   /\ s[i].pid \notin st.completed}
        future == {s[i].arrival : i \in {j \in 1..n : s[j].pid \notin st.completed}}
    IN
    IF Cardinality(st.completed) >= n THEN st
    ELSE IF available = {}
    THEN IF future = {} THEN st
         ELSE PnpLoop(s, [st EXCEPT
                            !.timeline = AppendIdle(@, st.time, SetMin(future)),
                            !.time = SetMin(future)])
    ELSE LET curr == FirstMin(available, [i \in 1..n |-> s[i].priority])
             pid == s[curr].pid
             start == IF st.last # None /\ st.last # pid THEN st.time + cso_time
                      ELSE IF st.last = None /\ st.time > 0 THEN st.time + cso_time
                      ELSE st.time
             end == start + s[curr].burst
         IN PnpLoop(s, [timeline |-> Append(st.timeline, << pid, start, end >>),
                        metrics |-> SetMetric(st.metrics, pid,
                                        Metric(end, s[curr].arrival, s[curr].burst)),
                        completed |-> st.completed \cup {pid},
                        time |-> end,
                        last |-> pid])

PriorityNonPreemptive(w) ==
    PnpLoop(w, [timeline |-> << >>, metrics |-> << >>, completed |-> {},
                time |-> 0, last |-> None])

(* The idle branch of the preemptive loops, on st.                         *)
IdleOf(s, st) ==
    LET future == {s[i].arrival :
                     i \in {j \in 1..Len(s) : s[j].pid \notin st.completed
                                              /\ s[j].arrival > st.time}}
    IN [st EXCEPT !.timeline = AppendIdle(@, st.time, SetMin(future)),
                  !.time = SetMin(future),
                  !.last = Idle]

(* The idle branch has no future arrival: break.                           *)
NoFutureOf(s, st) ==
    \A j \in 1..Len(s) : s[j].pid \in st.completed \/ s[j].arrival <= st.time

(* The clock after the context-switch test of the preemptive loops, on st. *)
SwitchOf(st, pid) ==
    IF st.last # None /\ st.last # pid THEN st.time + cso_time ELSE st.time

(* Steps 6 and 7 of the preemptive loops, on st; w is the caller's list.   *)
SliceOf(w, s, st, curr, start_time, run_for) ==
    LET current_pid == s[curr].pid
        end_time == start_time + run_for
        rem == st.remaining[curr] - run_for
        proc_data == w[SetMin({i \in 1..Len(w) : w[i].pid = current_pid})]
    IN [st EXCEPT
          !.remaining = [@ EXCEPT ![curr] = rem],
          !.time = end_time,
          !.timeline = MergeSlice(@, current_pid, start_time, end_time),
          !.last = current_pid,
          !.completed = IF IsComplete(rem) THEN @ \cup {current_pid} ELSE @,
          !.metrics = IF IsComplete(rem)
                      THEN SetMetric(@, current_pid,
                               Metric(end_time, proc_data.arrival, proc_data.burst))
                      ELSE @]

(* The locals of a preemptive function after its prologue.                 *)
PreemptiveStart(w) ==
    [timeline |-> << >>, metrics |-> << >>, completed |-> {}, time |-> 0,
     last |-> None, remaining |-> [i \in 1..Len(w) |-> w[i].burst],
     queue |-> << >>, arrival_index |-> 0]

(* srtf_preemptive: the while loop.                                        *)
RECURSIVE SrtfLoop(_, _)
SrtfLoop(s, st) ==
    LET n == Len(s)
        available == {i \in 1..n : s[i].arrival <= st.time
                                   /\ s[i].pid \notin st.completed}
    IN
    IF Cardinality(st.completed) >= n THEN st
    ELSE IF available = {}
    THEN IF NoFutureOf(s, st) THEN st ELSE SrtfLoop(s, IdleOf(s, st))
    ELSE LET curr == FirstMin(available, st.remaining)
             t == SwitchOf(st, s[curr].pid)
             time_to_complete == st.remaining[curr]
             future_arrivals ==
                 {s[i].arrival :
                     i \in {j \in 1..n : s[j].arrival > t
                                         /\ s[j].pid \notin st.completed}}
             next_preemption_time ==
                 IF /\ future_arrivals # {}
                    /\ \E i \in 1..n : /\ s[i].arrival = SetMin(future_arrivals)
                                       /\ s[i].burst < st.remaining[curr]
                 THEN SetMin(future_arrivals) - t
                 ELSE time_to_complete
         IN SrtfLoop(s, SliceOf(s, s, st, curr, t,
                                Min2(time_to_complete, next_preemption_time)))

SrtfPreemptive(w) == SrtfLoop(w, PreemptiveStart(w))

(* priority_preemptive: the scan of future_arrivals, on st.                *)
RECURSIVE PpScanOf(_, _, _, _, _, _)
PpScanOf(s, st, k, t, prio, arr) ==
    IF k > Len(s) THEN arr
    ELSE IF /\ s[k].arrival > t
            /\ s[k].pid \notin st.completed
            /\ s[k].priority < prio
         THEN PpScanOf(s, st, k + 1, t, s[k].priority, s[k].arrival)
         ELSE PpScanOf(s, st, k + 1, t, prio, arr)

(* priority_preemptive: the while loop.                                    *)
RECURSIVE PpLoop(_, _)
PpLoop(s, st) ==
    LET n == Len(s)
        available == {i \in 1..n : s[i].arrival <= st.time
                                   /\ s[i].pid \notin st.completed}
    IN
    IF Cardinality(st.completed) >= n THEN st
    ELSE IF available = {}
    THEN IF NoFutureOf(s, st) THEN st ELSE PpLoop(s, IdleOf(s, st))
    ELSE LET curr == FirstMin(available, [i \in 1..n |-> s[i].priority])
             t == SwitchOf(st, s[curr].pid)
             time_to_complete == st.remaining[curr]
             preempting_arrival == PpScanOf(s, st, 1, t, s[curr].priority, None)
             next_preemption_time ==
                 IF preempting_arrival # None THEN preempting_arrival - t
                 ELSE time_to_complete
         IN PpLoop(s, SliceOf(s, s, st, curr, t,
                              Min2(time_to_complete, next_preemption_time)))

PriorityPreemptive(w) == PpLoop(w, PreemptiveStart(w))

(* round_robin: the two admission loops, on the list s.                    *)
RECURSIVE AdmitOf(_, _, _, _)
AdmitOf(s, q, idx, t) ==
    IF idx < Len(s) /\ s[idx + 1].arrival <= t
    THEN AdmitOf(s,
                 IF s[idx + 1].pid \notin {s[q[k]].pid : k \in 1..Len(q)}
                 THEN Append(q, idx + 1) ELSE q,
                 idx + 1, t)
    ELSE [queue |-> q, arrival_index |-> idx]

RECURSIVE NewArrivalsOf(_, _, _, _)
NewArrivalsOf(s, new_arrivals, idx, t) ==
    IF idx < Len(s) /\ s[idx + 1].arrival <= t
    THEN NewArrivalsOf(s, Append(new_arrivals, idx + 1), idx + 1, t)
    ELSE [new_arrivals |-> new_arrivals, arrival_index |-> idx]

(* round_robin: the while loop.                                            *)
RECURSIVE RrLoop(_, _)
RrLoop(s, st) ==
    LET a == AdmitOf(s, st.queue, st.arrival_index, st.time)
        st1 == [st EXCEPT !.queue = a.queue, !.arrival_index = a.arrival_index]
    IN
    IF Cardinality(st.completed) >= Len(s) THEN st
    ELSE IF a.queue = << >>
    THEN IF NoFutureOf(s, st) THEN st1 ELSE RrLoop(s, IdleOf(s, st1))
    ELSE LET curr == Head(a.queue)
             t == SwitchOf(st, s[curr].pid)
             run_for == Min2(quantum, st.remaining[curr])
             st2 == SliceOf(s, s, [st1 EXCEPT !.queue = Tail(a.queue)],
                            curr, t, run_for)
             na == NewArrivalsOf(s, << >>, a.arrival_index, st2.time)
         IN IF IsComplete(st2.remaining[curr])
            THEN RrLoop(s, st2)
            ELSE RrLoop(s, [st2 EXCEPT
                              !.queue = Append(@ \o na.new_arrivals, curr),
                              !.arrival_index = na.arrival_index])

RoundRobin(w) == RrLoop(w, PreemptiveStart(w))

(* The function the policy names, applied to the list w with the           *)
(* overhead cso_time and the quantum of the run.                           *)
Engine(pol, w) ==
    CASE pol = "fcfs" -> Fcfs(w)
      [] pol = "sjf" -> Sjf(w)
      [] pol = "srtf" -> SrtfPreemptive(w)
      [] pol = "priority_np" -> PriorityNonPreemptive(w)
      [] pol = "priority_p" -> PriorityPreemptive(w)
      [] pol = "rr" -> RoundRobin(w)

-----------------------------------------------------------------------------
(* The return statement: the loop condition fails, or the idle branch      *)
(* finds no future arrival and breaks.                                     *)

LoopExit ==
    CASE policy = "fcfs" -> loop_i >= N
      [] policy \in {"sjf", "priority_np"} ->
            \/ Cardinality(completed) >= N
            \/ Available(time) = {} /\ FutureOfIncomplete = {}
      [] policy \in {"srtf", "priority_p"} ->
            \/ Cardinality(completed) >= N
            \/ Available(time) = {} /\ IdleFuture(time) = {}
      [] policy = "rr" ->
            \/ Cardinality(completed) >= N
            \/ /\ Admit(queue, arrival_index, time).queue = << >>
               /\ IdleFuture(time) = {}

(* A mutant of Return: the function worked on the caller's list itself (no *)
(* deepcopy), so at the return the caller holds the working list.          *)
ReturnWithoutCopy ==
    /\ pc = "run"
    /\ LoopExit
    /\ pc' = "done"
    /\ processes' = procs
    /\ UNCHANGED << gui, policy, cso_time, quantum, procs, remaining,
                    time, timeline, metrics, completed, last_pid, queue,
                    arrival_index, loop_i >>

Return ==
    /\ pc = "run"
    /\ LoopExit
    /\ pc' = "done"
    /\ UNCHANGED << gui, processes, policy, cso_time, quantum, procs, remaining,
                    time, timeline, metrics, completed, last_pid, queue,
                    arrival_index, loop_i >>

Next ==
    \/ FcfsStep
    \/ SjfIdle
    \/ SjfDispatch
    \/ SrtfIdle
    \/ SrtfRun
    \/ PnpIdle
    \/ PnpDispatch
    \/ PpIdle
    \/ PpRun
    \/ RrIdle
    \/ RrRun
    \/ Return

Spec == Init /\ [][Next]_vars

NextSrtf == SrtfIdle \/ SrtfRun \/ Return

SpecSrtf == InitSrtf /\ [][NextSrtf]_vars

SpecWt == InitWt /\ [][NextSrtf]_vars

NextPp == PpIdle \/ PpRun \/ Return

SpecPp == InitPp /\ [][NextPp]_vars

NextRr == RrIdle \/ RrRun \/ Return

SpecRr == InitRr /\ [][NextRr]_vars

(* A run iteration of round_robin, followed while the timeline has fewer   *)
(* than MaxSegments segments.                                              *)
RrRunBounded == Len(timeline) < MaxSegments /\ RrRun

NextQuantum == RrIdle \/ RrRunBounded \/ Return

SpecQuantum == InitQuantum /\ [][NextQuantum]_vars

NextUnchecked ==
    \/ SjfIdle
    \/ SjfDispatch
    \/ SrtfIdle
    \/ SrtfRun
    \/ PnpIdle
    \/ PnpDispatch
    \/ Return

SpecUnchecked == InitUnchecked /\ [][NextUnchecked]_vars

NextScenario == FcfsStep \/ RrIdle \/ RrRun \/ Return

SpecScenario == InitScenario /\ [][NextScenario]_vars

-----------------------------------------------------------------------------
(* What the claims observe of a run.                                       *)

Segments == 1..Len(timeline)

Subject(k) == timeline[k][1]

SegStart(k) == timeline[k][2]

SegEnd(k) == timeline[k][3]

(* The position in procs of the record with this pid.                      *)
IndexOf(pid) == CHOOSE i \in 1..N : procs[i].pid = pid

(* The sum of the function f over the finite set S.                        *)
RECURSIVE SumFn(_, _)
SumFn(S, f) ==
    IF S = {} THEN 0
    ELSE LET x == CHOOSE y \in S : TRUE IN f[x] + SumFn(S \ {x}, f)

Duration(k) == SegEnd(k) - SegStart(k)

(* The sum of the durations of all segments.                               *)
TotalDuration == SumFn(Segments, [k \in Segments |-> Duration(k)])

(* The CPU time the timeline gives process pid before instant t.           *)
CpuBefore(pid, t) ==
    LET segs == {k \in Segments : Subject(k) = pid}
    IN SumFn(segs, [k \in segs |-> Max2(0, Min2(SegEnd(k), t) - SegStart(k))])

(* The remaining time of procs[i] at instant t, by the timeline.           *)
RemainingAt(i, t) == procs[i].burst - CpuBefore(procs[i].pid, t)

(* Segment k is a process segment on the CPU at instant t.                 *)
OnCpuAt(k, t) == Subject(k) # Idle /\ SegStart(k) <= t /\ t < SegEnd(k)

(* Segment k is a process segment that started before t and ran past it.   *)
RunsPast(k, t) == Subject(k) # Idle /\ SegStart(k) < t /\ t < SegEnd(k)

-----------------------------------------------------------------------------
(* C1: for every valid input the timeline is contiguous: the first segment *)
(* starts at 0 and every segment starts where its predecessor ended.       *)
C1_Contiguous ==
    /\ Len(timeline) > 0 => SegStart(1) = 0
    /\ \A k \in 1..(Len(timeline) - 1) : SegEnd(k) = SegStart(k + 1)

(* C1, amended: the first segment starts at 0, and every segment starts    *)
(* where its predecessor ended or exactly cso after it; so without         *)
(* overhead the timeline is contiguous.                                    *)
C1_ContiguousUpToOverhead ==
    /\ Len(timeline) > 0 => SegStart(1) = 0
    /\ \A k \in 1..(Len(timeline) - 1) :
        SegStart(k + 1) \in {SegEnd(k), SegEnd(k) + cso_time}

(* A run with overhead in which one switch is charged and one is not.      *)
C1_Witness ==
    /\ pc = "done"
    /\ cso_time > 0
    /\ \E k \in 1..(Len(timeline) - 1) : SegStart(k + 1) = SegEnd(k) + cso_time
    /\ \E k \in 1..(Len(timeline) - 1) : SegStart(k + 1) = SegEnd(k)

(* The junctions of the timeline at which overhead was charged.            *)
Gaps == {k \in 1..(Len(timeline) - 1) : SegStart(k + 1) # SegEnd(k)}

LastCT == SetMax({metrics[p].CT : p \in DOMAIN metrics})

(* C2: at the return, the durations of all segments, Idle included, sum to *)
(* the completion time of the last-finishing process.                      *)
C2_DurationsSumToLastCT ==
    (pc = "done" /\ DOMAIN metrics # {}) =>
        TotalDuration = LastCT

(* C2, amended: at the return, the durations of all segments plus cso for  *)
(* every charged switch sum to the completion time of the last-finishing   *)
(* process; so without overhead the durations alone do.                    *)
C2_DurationsAndOverheadSumToLastCT ==
    (pc = "done" /\ DOMAIN metrics # {}) =>
        TotalDuration + cso_time * Cardinality(Gaps) = LastCT

(* A finished run with overhead and two charged switches.                  *)
C2_Witness ==
    /\ pc = "done"
    /\ DOMAIN metrics # {}
    /\ cso_time > 0
    /\ Cardinality(Gaps) >= 2

(* C3: in SRTF without overhead, at every arrival instant the process on   *)
(* the CPU has the least remaining time among the arrived, incomplete      *)
(* processes (so a running process is preempted at the arrival of a        *)
(* process whose burst is smaller than its remaining time).                *)
C3_SrtfRunsShortestAtArrivals ==
    policy = "srtf" =>
        \A k \in Segments : \A q \in 1..N :
            OnCpuAt(k, procs[q].arrival) =>
                \A r \in 1..N :
                    (/\ procs[r].arrival <= procs[q].arrival
                     /\ RemainingAt(r, procs[q].arrival) > 0)
                    => RemainingAt(IndexOf(Subject(k)), procs[q].arrival)
                         <= RemainingAt(r, procs[q].arrival)

(* C4: in preemptive Priority without overhead, no process keeps the CPU   *)
(* past the arrival instant of a process with a strictly smaller priority  *)
(* number.                                                                 *)
C4_PriorityPreemptsAtArrival ==
    policy = "priority_p" =>
        \A k \in Segments : \A q \in 1..N :
            RunsPast(k, procs[q].arrival) =>
                ~(procs[q].priority < procs[IndexOf(Subject(k))].priority)

(* The work the loop still has to do: the bursts not yet run.              *)
WorkLeft ==
    CASE policy = "fcfs" -> SumFn((loop_i + 1)..N, Burst)
      [] policy \in {"sjf", "priority_np"} ->
            SumFn({i \in 1..N : procs[i].pid \notin completed}, Burst)
      [] OTHER -> SumFn(1..N, remaining)

(* A measure of the distance to the return statement: the work left, the   *)
(* number of records that have not arrived yet, and the return itself.     *)
Variant ==
    WorkLeft + Cardinality({i \in 1..N : procs[i].arrival > time})
             + (IF pc = "run" THEN 1 ELSE 0)

(* C5: every policy terminates on every valid input, and at the return the *)
(* metrics map has exactly one entry per pid of the workload.  Termination *)
(* is stated by a measure: before the return a step is always possible,    *)
(* the measure never goes below 0, and every step strictly decreases it.   *)
C5_TerminatesWithAllCompleted ==
    /\ [](pc = "done" => DOMAIN metrics = Pids)
    /\ [](pc = "run" => ENABLED Next)
    /\ [](Variant >= 0)
    /\ [][Variant' < Variant]_vars

C5_Witness ==
    /\ pc = "done"
    /\ policy = "rr"
    /\ Len(processes) >= 2
    /\ Len(timeline) > Len(processes)
    /\ DOMAIN metrics = Pids

(* C6: for every process with metrics, WT = TAT - burst >= 0 and           *)
(* CT >= arrival + burst.                                                  *)
C6_WaitingTimeNonNegative ==
    \A pid \in DOMAIN metrics :
        LET m == metrics[pid]
            p == ProcData(pid)
        IN /\ m.WT = m.TAT - p.burst
           /\ m.WT >= 0
           /\ m.CT >= p.arrival + p.burst

C6_Witness ==
    /\ pc = "done"
    /\ cso_time > 0
    /\ \E pid \in DOMAIN metrics : metrics[pid].WT > 0
    /\ \E pid \in DOMAIN metrics : metrics[pid].WT = 0

(* C7: for every process with metrics, CT is the end of the last timeline  *)
(* segment of that pid, TAT = CT - arrival and WT = TAT - burst, arrival   *)
(* and burst being those of the caller's record.                           *)
C7_MetricsFromTimeline ==
    \A pid \in DOMAIN metrics :
        LET m == metrics[pid]
            p == ProcData(pid)
            segs == {k \in Segments : Subject(k) = pid}
        IN /\ segs # {}
           /\ m.CT = SegEnd(SetMax(segs))
           /\ m.TAT = m.CT - p.arrival
           /\ m.WT = m.TAT - p.burst

C7_Witness ==
    /\ pc = "done"
    /\ \E pid \in DOMAIN metrics :
        /\ Cardinality({k \in Segments : Subject(k) = pid}) >= 2
        /\ ProcData(pid).arrival > 0

(* C8: in Round Robin, when a slice ends with its process preempted, every *)
(* other incomplete process that has arrived by the slice end is in the    *)
(* ready queue ahead of the preempted process, which is at the tail, and   *)
(* the processes admitted in that iteration are in arrival order.          *)
C8_ArrivalsQueuedBeforePreempted ==
    [][\A c \in 1..N :
        (policy = "rr" /\ remaining'[c] < remaining[c] /\ remaining'[c] > 0) =>
            /\ Len(queue') > 0
            /\ queue'[Len(queue')] = c
            /\ \A i \in (1..N) \ {c} :
                (procs[i].arrival <= time' /\ procs[i].pid \notin completed')
                => \E k \in 1..(Len(queue') - 1) : queue'[k] = i
            /\ \A k1, k2 \in 1..(Len(queue') - 1) :
                (/\ k1 < k2
                 /\ \A k \in 1..Len(queue) : queue[k] \notin {queue'[k1], queue'[k2]})
                => procs[queue'[k1]].arrival <= procs[queue'[k2]].arrival
      ]_vars

(* C9: an Idle segment starts only when no incomplete process has arrived, *)
(* and ends at the earliest arrival after its start.                       *)
C9_IdleOnlyWhenNothingReady ==
    \A k \in Segments :
        Subject(k) = Idle =>
            /\ \A i \in 1..N :
                procs[i].arrival <= SegStart(k) =>
                    /\ procs[i].pid \in DOMAIN metrics
                    /\ metrics[procs[i].pid].CT <= SegStart(k)
            /\ \E i \in 1..N : procs[i].arrival > SegStart(k)
            /\ SegEnd(k) = SetMin({procs[i].arrival :
                                    i \in {j \in 1..N : procs[j].arrival > SegStart(k)}})

(* C10: no two consecutive timeline segments have the same subject.        *)
C10_NoRepeatedSubject ==
    \A k \in 1..(Len(timeline) - 1) : Subject(k) # Subject(k + 1)

(* A Round Robin segment longer than the quantum: slices were merged.      *)
C10_Witness ==
    /\ policy = "rr"
    /\ \E k \in Segments : Subject(k) # Idle /\ Duration(k) > quantum

(* C11: every timeline segment, process or Idle, has start < end.          *)
C11_PositiveDuration ==
    \A k \in Segments : SegStart(k) < SegEnd(k)

(* A finished preemptive run with overhead, an Idle segment and a process  *)
(* that ran in two separate segments.                                      *)
C11_Witness ==
    /\ pc = "done"
    /\ policy \in Preemptive
    /\ cso_time > 0
    /\ \E k \in Segments : Subject(k) = Idle
    /\ \E j, k \in Segments : j < k /\ Subject(j) = Subject(k) /\ Subject(j) # Idle

(* The step dispatches procs[c] to completion (sjf, priority_np).          *)
Dispatches(c) == procs[c].pid \in completed' \ completed

(* C12: in non-preemptive SJF, the process chosen at a dispatch has the    *)
(* least burst among the processes that have arrived by the clock of the   *)
(* choice and are not completed.                                           *)
C12_SjfPicksShortest ==
    [][\A c \in 1..N :
        (policy = "sjf" /\ Dispatches(c)) =>
            /\ c \in Available(time)
            /\ \A i \in Available(time) : procs[c].burst <= procs[i].burst
      ]_vars

(* An SJF run in which the second record, the shorter of two that arrived  *)
(* together, ran first.                                                    *)
C12_Witness ==
    /\ policy = "sjf"
    /\ pc = "done"
    /\ N = 2
    /\ procs[1].arrival = procs[2].arrival
    /\ procs[2].burst < procs[1].burst
    /\ Subject(Len(timeline)) = procs[1].pid
    /\ Subject(Len(timeline) - 1) = procs[2].pid

(* C13: in non-preemptive Priority, the process chosen at a dispatch has   *)
(* the least priority number among the processes that have arrived by the  *)
(* clock of the choice and are not completed.                              *)
C13_PnpPicksMostUrgent ==
    [][\A c \in 1..N :
        (policy = "priority_np" /\ Dispatches(c)) =>
            /\ c \in Available(time)
            /\ \A i \in Available(time) : procs[c].priority <= procs[i].priority
      ]_vars

(* A Priority run in which the second record, the more urgent of two that  *)
(* arrived together, ran first although its burst is the longer.           *)
C13_Witness ==
    /\ policy = "priority_np"
    /\ pc = "done"
    /\ N = 2
    /\ procs[1].arrival = procs[2].arrival
    /\ procs[2].priority < procs[1].priority
    /\ procs[2].burst > procs[1].burst
    /\ Subject(Len(timeline)) = procs[1].pid
    /\ Subject(Len(timeline) - 1) = procs[2].pid

(* The step selects procs[c]: fcfs takes the next record of its sorted     *)
(* list, sjf and priority_np dispatch it, srtf and priority_p run a slice  *)
(* of it.                                                                  *)
Selects(c) ==
    CASE policy = "fcfs" -> loop_i' = loop_i + 1 /\ c = loop_i + 1
      [] policy \in {"sjf", "priority_np"} -> Dispatches(c)
      [] policy \in {"srtf", "priority_p"} -> remaining'[c] < remaining[c]
      [] OTHER -> FALSE

(* The candidates of the selection: the records fcfs has not run yet, the  *)
(* available processes of the other policies.                              *)
Candidates ==
    IF policy = "fcfs" THEN (loop_i + 1)..N ELSE Available(time)

(* The selection key of procs[i].                                          *)
SelectionKey(i) ==
    CASE policy = "fcfs" -> procs[i].arrival
      [] policy = "sjf" -> procs[i].burst
      [] policy = "srtf" -> remaining[i]
      [] OTHER -> procs[i].priority

(* C14: among the candidates that share the selected process's key, the    *)
(* selected one has the earliest arrival and, among equal arrivals, the    *)
(* lowest pid.                                                             *)
C14_TieBreakArrivalThenPid ==
    [][\A c \in 1..N :
        (policy # "rr" /\ Selects(c)) =>
            \A i \in Candidates :
                SelectionKey(i) = SelectionKey(c) =>
                    \/ procs[c].arrival < procs[i].arrival
                    \/ /\ procs[c].arrival = procs[i].arrival
                       /\ procs[c].pid <= procs[i].pid
      ]_vars

(* The lists that hold the records of w in another order.                  *)
Reorderings(w) ==
    {[i \in 1..Len(w) |-> w[f[i]]] : f \in Permutations(1..Len(w))}

(* C15: fcfs returns the same timeline and the same metrics for every      *)
(* ordering of the same records, records with equal arrival included.      *)
C15_FcfsInputOrderInvariant ==
    (policy = "fcfs" /\ pc = "done") =>
        \A w \in Reorderings(processes) :
            /\ Fcfs(w).timeline = timeline
            /\ Fcfs(w).metrics = metrics

(* The subjects of a timeline, in order.                                   *)
SubjectsOf(tl) == [k \in 1..Len(tl) |-> tl[k][1]]

(* C16: Round Robin with quantum >= max(burst) returns a timeline with the *)
(* same sequence of subjects as fcfs on the same list of records.          *)
C16_RrLargeQuantumIsFcfs ==
    (/\ policy = "rr"
     /\ pc = "done"
     /\ \A i \in 1..N : quantum >= procs[i].burst)
    => SubjectsOf(timeline) = SubjectsOf(Fcfs(processes).timeline)

(* The total waiting time of a metrics map (the average is this total      *)
(* divided by the number of processes, the same for both policies).        *)
TotalWT(ms) == SumFn(DOMAIN ms, [p \in DOMAIN ms |-> ms[p].WT])

C18_ScenarioA ==
    (/\ policy = "fcfs"
     /\ cso_time = 0
     /\ processes = ScenarioWorkload
     /\ pc = "done")
    => /\ timeline = << << 1, 0, 5 >>, << 2, 5, 8 >>, << 3, 8, 9 >> >>
       /\ metrics = << [CT |-> 5, TAT |-> 5, WT |-> 0],
                       [CT |-> 8, TAT |-> 7, WT |-> 4],
                       [CT |-> 9, TAT |-> 7, WT |-> 6] >>

(* fcfs has returned from scenario A.                                      *)
C18_Witness ==
    /\ policy = "fcfs"
    /\ cso_time = 0
    /\ processes = ScenarioWorkload
    /\ pc = "done"
    /\ Len(timeline) = Len(ScenarioWorkload)

(* C19, scenario B: round_robin with quantum 2 and cso = 0 on the scenario *)
(* workload returns the timeline [(P1,0,2),(P2,2,4),(P3,4,5),(P1,5,7),     *)
(* (P2,7,8),(P1,8,9)] and the metrics P1{CT 9, TAT 9, WT 4}, P2{CT 8,      *)
(* TAT 7, WT 4}, P3{CT 5, TAT 3, WT 2}.                                    *)
C19_ScenarioB ==
    (/\ policy = "rr"
     /\ quantum = DefaultQuantum
     /\ cso_time = 0
     /\ processes = ScenarioWorkload
     /\ pc = "done")
    => /\ timeline = << << 1, 0, 2 >>, << 2, 2, 4 >>, << 3, 4, 5 >>,
                        << 1, 5, 7 >>, << 2, 7, 8 >>, << 1, 8, 9 >> >>
       /\ metrics = << [CT |-> 9, TAT |-> 9, WT |-> 4],
                       [CT |-> 8, TAT |-> 7, WT |-> 4],
                       [CT |-> 5, TAT |-> 3, WT |-> 2] >>

(* round_robin has returned from scenario B.                               *)
C19_Witness ==
    /\ policy = "rr"
    /\ quantum = DefaultQuantum
    /\ cso_time = 0
    /\ processes = ScenarioWorkload
    /\ pc = "done"
    /\ DOMAIN metrics = Pids

(* C20: round_robin never enters its loop with a non-positive quantum: no  *)
(* iteration has acted on the clock or the timeline.                       *)
C20_NonPositiveQuantumRejected ==
    (policy = "rr" /\ quantum <= 0) => (time = 0 /\ timeline = << >>)

(* The workload w breaks a rule of valid input: a burst <= 0, a negative   *)
(* arrival or priority, or a pid on two records.                           *)
InvalidWorkload(w) ==
    \/ \E i \in 1..Len(w) :
        w[i].burst <= 0 \/ w[i].arrival < 0 \/ w[i].priority < 0
    \/ \E i, j \in 1..Len(w) : i # j /\ w[i].pid = w[j].pid

(* C21: a run on an invalid workload is rejected before any timeline       *)
(* segment or metric is produced.                                          *)
C21_InvalidWorkloadRejected ==
    InvalidWorkload(processes) => (timeline = << >> /\ metrics = << >>)

(* C22: on an empty workload every policy goes straight to its return      *)
(* statement, with an empty timeline and an empty metrics map.             *)
C22_EmptyWorkloadEmptyOutput ==
    processes = << >> =>
        /\ timeline = << >>
        /\ metrics = << >>
        /\ pc = "run" => LoopExit

(* A policy has returned from the empty workload.                          *)
C22_Witness ==
    /\ processes = << >>
    /\ pc = "done"
    /\ timeline = << >>

(* C23: a run leaves the caller's list as it was: no step changes it, and  *)
(* its records keep exactly the fields pid, arrival, burst and priority.   *)
C23_CallerWorkloadUnchanged ==
    /\ [](\A i \in 1..Len(processes) :
            DOMAIN processes[i] = {"pid", "arrival", "burst", "priority"})
    /\ [][processes' = processes]_vars

(* fcfs has returned; its sorted working copy differs from the caller's    *)
(* list.                                                                   *)
C23_Witness ==
    /\ pc = "done"
    /\ policy = "fcfs"
    /\ procs # processes

(* C24: the engine is deterministic: the timeline and the metrics a run    *)
(* returns are those the policy's function gives as a function of the      *)
(* inputs (workload, cso, quantum), so two runs on equal inputs return the *)
(* same.                                                                   *)
C24_Deterministic ==
    [](pc = "done" =>
          /\ timeline = Engine(policy, processes).timeline
          /\ metrics = Engine(policy, processes).metrics)

(* Round Robin has returned from a run with overhead in which two records  *)
(* arrived together and a process was preempted.                           *)
C24_Witness ==
    /\ pc = "done"
    /\ policy = "rr"
    /\ cso_time > 0
    /\ N >= 2
    /\ procs[1].arrival = procs[2].arrival
    /\ Len(timeline) > N

-----------------------------------------------------------------------------
(* The aggregator of utils.py.  A quotient is kept as the pair of its      *)
(* numerator and its denominator.                                          *)

Ratio(num, den) == [num |-> num, den |-> den]

(* final_time = max(t[2] for t in timeline) if timeline else 0.0           *)
FinalTimeOf(tl) ==
    IF tl # << >> THEN SetMax({tl[k][3] : k \in 1..Len(tl)}) ELSE 0

FinalTime == FinalTimeOf(timeline)

(* calculate_average_metrics(metrics, final_time): a dict from the names   *)
(* of the summary statistics, the empty dict when metrics is empty.        *)
CalculateAverageMetrics(ms, final_time) ==
    IF DOMAIN ms = {} THEN << >>
    ELSE LET num_processes == Cardinality(DOMAIN ms)
             total_tat == SumFn(DOMAIN ms, [p \in DOMAIN ms |-> ms[p].TAT])
             total_wt == SumFn(DOMAIN ms, [p \in DOMAIN ms |-> ms[p].WT])
             throughput == IF final_time > 0 THEN Ratio(num_processes, final_time)
                           ELSE Ratio(0, 1)
         IN ("Average Turnaround Time" :> Ratio(total_tat, num_processes))
            @@ ("Average Waiting Time" :> Ratio(total_wt, num_processes))
            @@ ("Total Waiting Time" :> Ratio(total_wt, 1))
            @@ ("Throughput (proc/unit)" :> throughput)

(* calculate_cpu_utilization(timeline, final_time), as a quotient (the     *)
(* percentage is 100 times it).                                            *)
CalculateCpuUtilization(tl, final_time) ==
    IF final_time <= 0 THEN Ratio(0, 1)
    ELSE LET busy == {k \in 1..Len(tl) : tl[k][1] # Idle}
             busy_time == SumFn(busy, [k \in busy |-> tl[k][3] - tl[k][2]])
         IN Ratio(busy_time, final_time)

(* The summary ratios the claim names.                                     *)
SummaryRatios ==
    {"Average Turnaround Time", "Average Waiting Time", "Throughput (proc/unit)"}

(* C25: when the final time is 0 (empty workload) the aggregator returns   *)
(* every summary ratio with value 0: the average turnaround time, the      *)
(* average waiting time and the throughput are present in the result of    *)
(* calculate_average_metrics and are 0, and the utilization is 0.          *)
C25_ZeroFinalTimeRatiosAreZero ==
    (pc = "done" /\ FinalTime = 0) =>
        LET avg == CalculateAverageMetrics(metrics, FinalTime) IN
        /\ \A key \in SummaryRatios : key \in DOMAIN avg /\ avg[key].num = 0
        /\ CalculateCpuUtilization(timeline, FinalTime).num = 0

-----------------------------------------------------------------------------
(* The policies whose loop runs a process in slices.                       *)
PreemptivePolicies == {"srtf", "priority_p", "rr"}

(* The policies that charge the overhead on every switch.                  *)
EverySwitchPolicies == {"sjf", "srtf", "priority_np", "priority_p", "rr"}

(* Segment k runs a process and some process ran before it.                *)
FollowsAProcess(k) ==
    /\ Subject(k) # Idle
    /\ \E j \in 1..(k - 1) : Subject(j) # Idle

-----------------------------------------------------------------------------
(* The records in the ready queue at the decision point of this iteration: *)
(* the queue after the admission loop at the top of the loop body.         *)
ReadyQueue == Admit(queue, arrival_index, time)

(* C28: in Round Robin, at every decision point every record that has      *)
(* arrived and is not completed is in the ready queue, and the records     *)
(* have entered the queue in non-decreasing order of arrival, whatever the *)
(* order of the records in the workload.                                   *)
C28_RrQueueHoldsAllArrived ==
    (policy = "rr" /\ pc = "run" /\ Cardinality(completed) < N) =>
        /\ \A i \in 1..N :
              (procs[i].arrival <= time /\ procs[i].pid \notin completed)
              => procs[i].pid \in QueuePids(ReadyQueue.queue)
        /\ \A i, j \in 1..ReadyQueue.arrival_index :
              i < j => procs[i].arrival <= procs[j].arrival

(* The quantum boundaries strictly inside segment k.                       *)
QuantumBoundaries(k) ==
    {b \in (SegStart(k) + 1)..(SegEnd(k) - 1) :
        \E m \in 1..Duration(k) : b = SegStart(k) + m * quantum}

(* C29: in Round Robin no process runs for more than one quantum while     *)
(* another process is ready: at every quantum boundary inside a process    *)
(* segment, no other record has arrived and is still incomplete.           *)
C29_RrQuantumBoundsARun ==
    (policy = "rr" /\ pc = "done") =>
        \A k \in Segments :
            Subject(k) # Idle =>
                \A b \in QuantumBoundaries(k) :
                    \A i \in 1..N :
                        (procs[i].pid # Subject(k) /\ procs[i].arrival <= b)
                        => RemainingAt(i, b) = 0

-----------------------------------------------------------------------------
(* The policies that run a chosen process to completion.                   *)
NonPreemptivePolicies == {"fcfs", "sjf", "priority_np"}

(* The segments of the timeline that run the process pid.                  *)
SegmentsOf(pid) == {k \in Segments : Subject(k) = pid}

(* C30: in fcfs, sjf and priority_np a process that has been chosen has    *)
(* exactly one timeline segment, as long as its burst, starting at or      *)
(* after its arrival and ending at its completion time; a process not yet  *)
(* chosen has none, and at the return every process has been chosen.       *)
C30_NonPreemptiveOneSegment ==
    policy \in NonPreemptivePolicies =>
        \A i \in 1..N :
            LET pid == procs[i].pid IN
            /\ pid \in DOMAIN metrics =>
                  /\ Cardinality(SegmentsOf(pid)) = 1
                  /\ \A k \in SegmentsOf(pid) :
                        /\ Duration(k) = procs[i].burst
                        /\ SegStart(k) >= procs[i].arrival
                        /\ SegEnd(k) = metrics[pid].CT
            /\ pid \notin DOMAIN metrics => SegmentsOf(pid) = {}
            /\ pc = "done" => pid \in DOMAIN metrics

(* A non-preemptive run has returned whose timeline has two processes and  *)
(* an Idle segment, the overhead being charged.                            *)
C30_Witness ==
    /\ pc = "done"
    /\ policy \in NonPreemptivePolicies
    /\ cso_time > 0
    /\ N >= 2
    /\ \E k \in Segments : Subject(k) = Idle
    /\ \E i \in 1..N : \E k \in SegmentsOf(procs[i].pid) :
          SegStart(k) > procs[i].arrival

-----------------------------------------------------------------------------
(* No process has run yet.                                                 *)
NothingRan == \A k \in Segments : Subject(k) = Idle

(* C31: in srtf, priority_p and rr the field 'remaining' of every record   *)
(* is the burst until a process runs, lies between 0 and the burst in      *)
(* every state, and never increases from one loop iteration to the next.   *)
C31_RemainingBounded ==
    /\ [](policy \in PreemptivePolicies =>
            \A i \in 1..N :
                /\ 0 <= remaining[i] /\ remaining[i] <= procs[i].burst
                /\ NothingRan => remaining[i] = procs[i].burst)
    /\ [][(policy \in PreemptivePolicies) =>
            (\A i \in 1..N : remaining'[i] <= remaining[i])]_vars

(* A preemptive run with overhead in which one process has run a part of   *)
(* its burst and another has not run at all.                               *)
C31_Witness ==
    /\ policy \in PreemptivePolicies
    /\ cso_time > 0
    /\ \E i \in 1..N : 0 < remaining[i] /\ remaining[i] < procs[i].burst
    /\ \E i \in 1..N : remaining[i] = procs[i].burst

(* The CPU time the timeline gives process pid.                            *)
CpuTime(pid) ==
    SumFn(SegmentsOf(pid), [k \in SegmentsOf(pid) |-> Duration(k)])

(* C32: in every policy the time a process occupies the CPU equals its     *)
(* burst: at the return the durations of the segments of each pid sum to   *)
(* its burst, and during a preemptive run they sum to the part of the      *)
(* burst that is no longer remaining.                                      *)
C32_CpuTimeIsBurst ==
    [](\A i \in 1..N :
          /\ pc = "done" => CpuTime(procs[i].pid) = procs[i].burst
          /\ policy \in PreemptivePolicies =>
                CpuTime(procs[i].pid) = procs[i].burst - remaining[i])

(* A preemptive run with overhead has returned in which a process ran in   *)
(* two segments and the timeline has an Idle segment.                      *)
C32_Witness ==
    /\ pc = "done"
    /\ policy \in PreemptivePolicies
    /\ cso_time > 0
    /\ \E i \in 1..N : Cardinality(SegmentsOf(procs[i].pid)) >= 2
    /\ \E k \in Segments : Subject(k) = Idle

(* C33: in every policy and for any order of the records, no process runs  *)
(* before it arrives: every segment of a pid starts at or after the        *)
(* arrival of that process.                                                *)
C33_NoRunBeforeArrival ==
    \A k \in Segments :
        Subject(k) # Idle => SegStart(k) >= procs[IndexOf(Subject(k))].arrival

(* Round Robin has returned from a run on a list that is not in order of   *)
(* arrival, in which a process waited after its arrival.                   *)
C33_Witness ==
    /\ pc = "done"
    /\ policy = "rr"
    /\ \E i \in 1..(N - 1) : procs[i].arrival > procs[i + 1].arrival
    /\ \E k \in Segments :
          Subject(k) # Idle /\ SegStart(k) > procs[IndexOf(Subject(k))].arrival

-----------------------------------------------------------------------------
(* C34: completion is absorbing in every policy.  A process whose metrics  *)
(* are recorded is not in the ready queue and has no segment starting at   *)
(* or after its CT; and a step of the loop leaves its metrics entry, its   *)
(* segments and (in the preemptive policies) its remaining time as they    *)
(* are, and does not put it in the queue.                                  *)
C34_CompletionAbsorbing ==
    /\ [](\A pid \in DOMAIN metrics :
            /\ pid \notin QueuePids(queue)
            /\ \A k \in SegmentsOf(pid) : SegStart(k) < metrics[pid].CT)
    /\ [][\A pid \in DOMAIN metrics :
            /\ pid \in DOMAIN metrics'
            /\ metrics'[pid] = metrics[pid]
            /\ pid \notin QueuePids(queue')
            /\ last_pid' # last_pid => last_pid' # pid
            /\ \A k \in SegmentsOf(pid) : timeline'[k] = timeline[k]
            /\ {k \in 1..Len(timeline') : timeline'[k][1] = pid} = SegmentsOf(pid)
            /\ policy \in PreemptivePolicies =>
                  remaining'[IndexOf(pid)] = remaining[IndexOf(pid)]]_vars

(* A run with overhead in which a process has completed, another has run   *)
(* after that completion and is itself complete.                           *)
C34_Witness ==
    /\ pc = "done"
    /\ cso_time > 0
    /\ policy \in PreemptivePolicies
    /\ \E p1, p2 \in DOMAIN metrics :
          /\ metrics[p1].CT < metrics[p2].CT
          /\ \E k \in SegmentsOf(p2) : SegStart(k) < metrics[p1].CT

(* final_time = self.timeline[-1][2] if self.timeline else 0.0             *)
DisplayedFinalTime ==
    IF timeline # << >> THEN timeline[Len(timeline)][3] ELSE 0

(* C35: for every non-empty valid workload and every policy, the returned  *)
(* timeline does not end with an Idle segment, the ends of its segments    *)
(* are non-decreasing, and the end of its last segment, which is the final *)
(* time of the display and of the export, is the largest CT.               *)
C35_TimelineEndsAtLastCT ==
    (pc = "done" /\ N > 0) =>
        /\ timeline # << >>
        /\ ~LastIsIdle(timeline)
        /\ \A k \in 1..(Len(timeline) - 1) : SegEnd(k) <= SegEnd(k + 1)
        /\ DisplayedFinalTime = LastCT
        /\ FinalTime = LastCT

(* A run with overhead has returned whose timeline has an Idle segment     *)
(* before its last segment and whose last-finishing process is not the     *)
(* last record of the list.                                                *)
C35_Witness ==
    /\ pc = "done"
    /\ N >= 2
    /\ cso_time > 0
    /\ Subject(Len(timeline) - 1) = Idle
    /\ Subject(Len(timeline)) # procs[N].pid

-----------------------------------------------------------------------------
(* The first segment of the timeline that runs a process.                  *)
FirstProcessSegment == SetMin({k \in Segments : Subject(k) # Idle})

(* The earliest arrival of the workload.                                   *)
EarliestArrival == SetMin({procs[i].arrival : i \in 1..N})

(* C36: in all six policies the first process dispatched is charged the    *)
(* overhead if and only if it starts after an initial Idle gap: when some  *)
(* process arrives at 0 the first process segment starts at 0, otherwise   *)
(* it starts at the earliest arrival plus cso_time.                        *)
C36_FirstDispatchOverhead ==
    (\E k \in Segments : Subject(k) # Idle) =>
        SegStart(FirstProcessSegment) =
            IF EarliestArrival = 0 THEN 0 ELSE EarliestArrival + cso_time

-----------------------------------------------------------------------------
(* The total length of the Idle segments of a timeline.                    *)
IdleTimeOf(tl) ==
    LET idle == {k \in 1..Len(tl) : tl[k][1] = Idle}
    IN SumFn(idle, [k \in idle |-> tl[k][3] - tl[k][2]])

(* The functions without a quantum parameter.                              *)
QuantumFreePolicies == {"fcfs", "sjf", "srtf", "priority_np", "priority_p"}

(* C37: with cso = 0 the engine is work-conserving under every policy: on  *)
(* the same workload, in any order of its records, the run of any policy   *)
(* returns the same final completion time and the same total Idle time as  *)
(* each of the other functions.                                            *)
C37_WorkConserving ==
    (pc = "done" /\ cso_time = 0) =>
        \A pol \in QuantumFreePolicies :
            /\ FinalTimeOf(Engine(pol, processes).timeline) = FinalTime
            /\ IdleTimeOf(Engine(pol, processes).timeline) = IdleTimeOf(timeline)

-----------------------------------------------------------------------------
(* The front-end (main_gui.py): the handlers of the Add, Delete, Run and   *)
(* Reset controls and the animation callback.  Tk runs one handler at a    *)
(* time, so each is one step; master.after callbacks of equal delay fire   *)
(* in the order in which they were scheduled.  A call of the engine is     *)
(* the function Engine inside the handler's step.  The pid string          *)
(* str(p['pid']) serves only as a key, and is kept as the pid.             *)

(* The most pids the Add control hands out, and the most callbacks pending *)
(* at once, that the model follows.                                        *)
MaxGuiPid == 2
MaxCallbacks == 2

(* The locals of the engine's functions, dead between two calls.           *)
engine_locals == << procs, remaining, time, completed, last_pid, queue,
                    arrival_index, loop_i, pc >>

(* The front-end after construction, with the algorithm, the overhead and  *)
(* the quantum its controls hold.                                          *)
InitGui ==
    \E pol \in {"fcfs", "srtf", "rr"} :
    \E cso \in {0, MaxCso} :
    \E q \in 1..MaxQuantum :
        /\ GuiConstructed
        /\ processes = << >>
        /\ policy = pol
        /\ cso_time = cso
        /\ quantum = IF pol = "rr" THEN q ELSE 0
        /\ timeline = << >>
        /\ metrics = << >>
        /\ procs = << >>
        /\ remaining = << >>
        /\ time = 0
        /\ completed = {}
        /\ last_pid = None
        /\ queue = << >>
        /\ arrival_index = 0
        /\ loop_i = 0
        /\ pc = "done"

(* display_results_final(metrics, algorithm_name, clear_only): the rows of *)
(* the metrics table afterwards.                                           *)
DisplayResultsFinal(ms, clear_only) ==
    IF clear_only \/ timeline = << >> THEN << >> ELSE ms

(* run_simulation, with self.processes = ps.                               *)
RunSimulation(ps) ==
    IF ps = << >>
    THEN /\ animation_running' = FALSE
         /\ metrics_tree' = DisplayResultsFinal(<< >>, TRUE)
         /\ UNCHANGED << timeline, metrics, current_step, callbacks >>
    ELSE LET r == Engine(policy, ps) IN
         /\ timeline' = r.timeline
         /\ metrics' = r.metrics
         /\ current_step' = 0
         /\ animation_running' = TRUE
         /\ callbacks' = Append(callbacks, [metrics |-> r.metrics])
         /\ UNCHANGED metrics_tree

(* The Run button.                                                         *)
RunButton ==
    /\ Len(callbacks) < MaxCallbacks
    /\ RunSimulation(processes)
    /\ UNCHANGED << processes, self_current_pid, policy, cso_time, quantum,
                    engine_locals >>

(* add_process, with the entries arrival, burst and priority.              *)
AddProcess(arrival, burst, priority) ==
    /\ Len(callbacks) < MaxCallbacks
    /\ self_current_pid <= MaxGuiPid
    /\ IF burst <= 0 \/ arrival < 0 \/ priority < 0
       THEN UNCHANGED << processes, self_current_pid, timeline, metrics, gui >>
       ELSE LET new_process == [pid |-> self_current_pid, arrival |-> arrival,
                                burst |-> burst, priority |-> priority]
            IN /\ processes' = SortByArrival(Append(processes, new_process))
               /\ self_current_pid' = self_current_pid + 1
               /\ RunSimulation(processes')
    /\ UNCHANGED << policy, cso_time, quantum, engine_locals >>

(* delete_process(pid_to_delete), from a click on a row of the table.      *)
DeleteProcess(pid_to_delete) ==
    /\ Len(callbacks) < MaxCallbacks
    /\ \E i \in 1..Len(processes) : processes[i].pid = pid_to_delete
    /\ processes' = SelectSeq(processes, LAMBDA p : p.pid # pid_to_delete)
    /\ RunSimulation(processes')
    /\ UNCHANGED << self_current_pid, policy, cso_time, quantum, engine_locals >>

(* reset_data.                                                             *)
ResetData ==
    /\ processes' = << >>
    /\ self_current_pid' = 1
    /\ timeline' = << >>
    /\ metrics_tree' = DisplayResultsFinal(<< >>, TRUE)
    /\ UNCHANGED << animation_running, current_step, callbacks, metrics,
                    policy, cso_time, quantum, engine_locals >>

(* animate_gantt_chart(metrics, algorithm_name): the pending callback that *)
(* is due first fires.                                                     *)
AnimateGanttChart ==
    /\ callbacks # << >>
    /\ LET cb == Head(callbacks) IN
       IF ~animation_running \/ current_step >= Len(timeline)
       THEN /\ animation_running' = FALSE
            /\ metrics_tree' = DisplayResultsFinal(cb.metrics, FALSE)
            /\ callbacks' = Tail(callbacks)
            /\ UNCHANGED current_step
       ELSE /\ current_step' = current_step + 1
            /\ callbacks' = Append(Tail(callbacks), cb)
            /\ UNCHANGED << animation_running, metrics_tree >>
    /\ UNCHANGED << processes, self_current_pid, timeline, metrics, policy,
                    cso_time, quantum, engine_locals >>

NextGui ==
    \/ \E arrival \in 0..1 : \E burst \in 0..MaxBurst :
          AddProcess(arrival, burst, DefaultPriority)
    \/ \E pid_to_delete \in 1..MaxGuiPid : DeleteProcess(pid_to_delete)
    \/ RunButton
    \/ ResetData
    \/ AnimateGanttChart

SpecGui == InitGui /\ [][NextGui]_vars

(* C38: starting a new simulation while the callbacks of an earlier run    *)
(* are pending cancels the earlier animation: at most one callback is      *)
(* pending at any time, and once none is pending the metrics table shows   *)
(* the metrics of the latest run, or nothing when the process list is      *)
(* empty.                                                                  *)
C38_NewRunCancelsAnimation ==
    /\ Len(callbacks) <= 1
    /\ callbacks = << >> =>
          metrics_tree = IF processes = << >> THEN << >> ELSE metrics

=============================================================================
